---- MODULE Spec2Model ----
(***************************************************************************)
(* Model of pytest_django/fixtures.py: the per-test database fixtures      *)
(* (db, transactional_db, django_db_reset_sequences, _live_server_helper,  *)
(* _django_db_fixture_helper), the parallel test-database suffix resolvers *)
(* (_set_suffix_to_test_databases and its two callers), the session        *)
(* fixture django_db_setup with its teardown finalizer, and the query      *)
(* count assertion _assert_num_queries.                                    *)
(*                                                                         *)
(* Spec         the tests of a session whose databases are set up, driven  *)
(*              through fixture setup, the test body and the finalizers,   *)
(*              under every setting of the test-case class options.        *)
(* SpecSuffix   two worker processes that start from the same DATABASES    *)
(*              setting and each run the tox and the xdist resolver.       *)
(* SpecSession  one worker's whole session: the suffix resolvers,          *)
(*              django_db_setup, the tests, the session finalizers.        *)
(* SpecQueries  one with block of django_assert_num_queries or             *)
(*              django_assert_max_num_queries.                             *)
(***************************************************************************)
EXTENDS Integers, Sequences, FiniteSets, TLC

VARIABLES
    \* ---- session ----
    config,          \* request.config options and os.environ entries read by the helper
    testsRun,        \* number of tests started in this session
    \* ---- the running test ----
    test,            \* [fixturenames, is_django_unittest, databases] of the test item
    phase,           \* "idle" | "setup" | "call" | "teardown"
    outcome,         \* "none" | "error" (a fixture raised) | "passed" | "failed"
    pending,         \* function-scoped fixtures pytest has still to instantiate
    stack,           \* fixture functions being executed, innermost last: [fix, pc]
    cache,           \* per fixture: "none" | "ok" | "error" (FixtureDef.cached_result)
    fixFinalizers,   \* per fixture: finalizers registered with request.addfinalizer
    nodeFinalizers,  \* fixtures whose FixtureDef.finish is scheduled on the test item
    calls,           \* invocations of _django_db_fixture_helper that passed its guards
    cases,           \* PytestDjangoTestCase classes derived, one per successful import
    log,             \* gate and test-case operations performed for this test, in order
    blockerActive,   \* django_db_blocker: "blocked" | "unblocked"
    blockerHistory,  \* django_db_blocker: saved states, restored LIFO
    liveSettings,    \* live_server._live_server_modified_settings enabled
    raised,          \* message of the exception that aborted the test's setup, or None
    \* ---- parallel suffix resolvers ----
    configured,      \* settings.DATABASES as the settings module defines it
    databases,       \* per worker: settings.DATABASES
    environ,         \* per worker: [tox, xdist] worker identifiers
    wpc,             \* per worker: how many resolvers of ResolverOrder have run
    applied,         \* per worker: suffixes handed to _set_suffix_to_test_databases
    \* ---- django_db_setup and the end of the session ----
    dbOptions,       \* request.config: [nomigrations, reuse_db, create_db]
    dbSetup,         \* django_db_setup: "none" | "args" | "unblocked" | "done" | "failed"
    migration,       \* [MIGRATION_MODULES, Command]: what _disable_native_migrations replaces
    setupCalls,      \* calls of setup_databases, each with what it was given and saw
    teardownCalls,   \* calls of teardown_databases, each with whether it raised
    warnings,        \* warnings attached to the session node
    sessionFinalizers, \* finalizers registered by django_db_setup
    sessionPhase,    \* "running" | "finishing" | "teardown_database" | "finished"
    sessionError,    \* an exception left a session finalizer
    \* ---- _assert_num_queries ----
    assertion        \* one use of django_assert_(max_)num_queries: inputs and result

vars == <<config, testsRun, test, phase, outcome, pending, stack, cache,
          fixFinalizers, nodeFinalizers, calls, cases, log, blockerActive,
          blockerHistory, liveSettings, raised, configured, databases, environ,
          wpc, applied, dbOptions, dbSetup, migration, setupCalls, teardownCalls,
          warnings, sessionFinalizers, sessionPhase, sessionError, assertion>>

testVars == <<config, testsRun, test, phase, outcome, pending, stack, cache,
              fixFinalizers, nodeFinalizers, calls, cases, log, blockerActive,
              blockerHistory, liveSettings, raised>>

suffixVars == <<configured, databases, environ, wpc, applied>>

sessionVars == <<dbOptions, dbSetup, migration, setupCalls, teardownCalls,
                 warnings, sessionFinalizers, sessionPhase, sessionError>>

queryVars == <<assertion>>

\* ------------------------------------------------------------------ bounds

MaxTests == 2

\* Most queries a block wrapped by django_assert_num_queries performs, and the
\* largest count a test expects.
MaxQueries == 3

\* ------------------------------------------------------------ Python values

\* Optional values: None is the empty tuple, a present value x is <<x>>.
None == <<>>
Some(x) == <<x>>

\* Strings that are built by formatting are tuples of letters; "{}_{}".format(a, b)
\* is a \o <<"_">> \o b.
EmptyStr == <<>>

RECURSIVE Reverse(_)
Reverse(s) == IF s = <<>> THEN <<>> ELSE Append(Reverse(Tail(s)), Head(s))

Front(s) == SubSeq(s, 1, Len(s) - 1)

\* Python truthiness of an optional name (None and "" are false), and `a or b`.
Truthy(o) == o # None /\ o[1] # ""
PyOr(a, b) == IF Truthy(a) THEN a ELSE b

\* --------------------------------------------------- fixtures of one test

DbFixtures == {"db", "transactional_db", "django_db_reset_sequences"}

\* _live_server_helper is autouse: pytest instantiates it for every test.
FunctionFixtures == DbFixtures \cup {"_live_server_helper"}

\* What a test can name in its arguments or in usefixtures.
RequestableFixtures == DbFixtures \cup {"live_server"}

\* request.node._pytest_django_databases: None, or the aliases the marker names.
DatabasesValues == {None, Some({"default", "replica"})}

OptionValues(custom, missing) == {None, Some(custom), Some(missing)}
EnvValues(custom) == {None, Some(custom)}

Configs ==
    [transaction_testcase_class : OptionValues("myapp.TxnOptCase", "missing.TxnCase"),
     DJANGO_TRANSACTION_TEST_CASE_CLASS : EnvValues("myapp.TxnEnvCase"),
     testcase_class : OptionValues("myapp.OptCase", "missing.Case"),
     DJANGO_TEST_CASE_CLASS : EnvValues("myapp.EnvCase")]

\* django.utils.module_loading.import_string succeeds on these dotted paths.
ImportableClasses ==
    {"django.test.TestCase", "django.test.TransactionTestCase",
     "myapp.TxnOptCase", "myapp.TxnEnvCase", "myapp.OptCase", "myapp.EnvCase"}

NoFinalizers == [f \in FunctionFixtures |-> <<>>]
NoCache == [f \in FunctionFixtures |-> "none"]
NoTest == [fixturenames |-> {}, is_django_unittest |-> FALSE, databases |-> None]

\* --------------------------------------------------- django_db_blocker

\* unblock(): save the current state, allow database access.
BlockerUnblock ==
    /\ blockerHistory' = Append(blockerHistory, blockerActive)
    /\ blockerActive' = "unblocked"

\* restore(): pop the state saved by the matching unblock().
BlockerRestore ==
    /\ blockerActive' = blockerHistory[Len(blockerHistory)]
    /\ blockerHistory' = Front(blockerHistory)

\* --------------------------------------------------- pytest fixture machinery

Top == stack[Len(stack)]
Running(fix, pc) == phase = "setup" /\ stack # <<>> /\ Top.fix = fix /\ Top.pc = pc
InHelper(pc) == phase = "setup" /\ stack # <<>> /\ Top.pc = pc

\* First statement of each fixture function.
EntryPc(fix) ==
    CASE fix = "db" -> "db_reset_sequences"
      [] fix = "transactional_db" -> "transactional_db_reset_sequences"
      [] fix = "django_db_reset_sequences" -> "helper"
      [] fix = "_live_server_helper" -> "live_server_check"

SetTopPc(pc) == [stack EXCEPT ![Len(stack)].pc = pc]

\* request.getfixturevalue(name), the caller resuming at pc: a fixture already
\* instantiated for this test is taken from the cache, any other is executed now.
GetFixtureValue(name, pc) ==
    IF cache[name] = "none"
    THEN Append(SetTopPc(pc), [fix |-> name, pc |-> EntryPc(name)])
    ELSE SetTopPc(pc)

StackFixtures == [i \in 1..Len(stack) |-> stack[i].fix]

\* A fixture function raises: the exception leaves every fixture function on the
\* stack, innermost first; each caches the error and has its finish scheduled
\* (the finally clause around FixtureDef.execute), and the test goes to teardown.
Raise ==
    /\ cache' = [f \in FunctionFixtures |->
                    IF \E i \in 1..Len(stack) : stack[i].fix = f THEN "error" ELSE cache[f]]
    /\ nodeFinalizers' = nodeFinalizers \o Reverse(StackFixtures)
    /\ stack' = <<>>
    /\ pending' = {}
    /\ outcome' = "error"
    /\ phase' = "teardown"

\* A fixture function returns: its value is cached and its finish is scheduled.
Return ==
    /\ cache' = [cache EXCEPT ![Top.fix] = "ok"]
    /\ nodeFinalizers' = Append(nodeFinalizers, Top.fix)
    /\ stack' = Front(stack)
    /\ UNCHANGED <<pending, outcome, phase>>

\* request.addfinalizer(fin) inside the fixture function on top of the stack.
AddFinalizer(fins, fin) == [fins EXCEPT ![Top.fix] = Append(@, fin)]

\* --------------------------------------------------- _django_db_fixture_helper

\* The arguments each fixture passes to the helper.
HelperArgs(fix) ==
    CASE fix = "db" ->
            [fix |-> fix, transactional |-> FALSE, reset_sequences |-> FALSE]
      [] fix = "transactional_db" ->
            [fix |-> fix, transactional |-> TRUE, reset_sequences |-> FALSE]
      [] fix = "django_db_reset_sequences" ->
            [fix |-> fix, transactional |-> TRUE, reset_sequences |-> TRUE]

\* Mutant: the helper without its is_django_unittest check.
HelperSkips_NoUnittestCheck(transactional) ==
    ~transactional /\ "live_server" \in test.fixturenames

\* The two early returns of the helper.
HelperSkips(transactional) ==
    \/ test.is_django_unittest
    \/ ~transactional /\ "live_server" \in test.fixturenames

\* Mutant: the two branches that pick the settings exchanged.
TestCaseClassname_Swapped(transactional) ==
    IF ~transactional
    THEN PyOr(config.transaction_testcase_class,
              PyOr(config.DJANGO_TRANSACTION_TEST_CASE_CLASS,
                   Some("django.test.TransactionTestCase")))[1]
    ELSE PyOr(config.testcase_class,
              PyOr(config.DJANGO_TEST_CASE_CLASS,
                   Some("django.test.TestCase")))[1]

\* Mutant: the environment variable is looked at before the option.
TestCaseClassname_EnvFirst(transactional) ==
    IF transactional
    THEN PyOr(config.DJANGO_TRANSACTION_TEST_CASE_CLASS,
              PyOr(config.transaction_testcase_class,
                   Some("django.test.TransactionTestCase")))[1]
    ELSE PyOr(config.DJANGO_TEST_CASE_CLASS,
              PyOr(config.testcase_class,
                   Some("django.test.TestCase")))[1]

\* The dotted path of the base class: option, else environment variable, else
\* Django's own class.
TestCaseClassname(transactional) ==
    IF transactional
    THEN PyOr(config.transaction_testcase_class,
              PyOr(config.DJANGO_TRANSACTION_TEST_CASE_CLASS,
                   Some("django.test.TransactionTestCase")))[1]
    ELSE PyOr(config.testcase_class,
              PyOr(config.DJANGO_TEST_CASE_CLASS,
                   Some("django.test.TestCase")))[1]

\* Mutant: the class body tests `transactional` alone.
SetsResetSequences_TransactionalOnly(transactional, reset_sequences) == transactional

\* Class body of PytestDjangoTestCase: whether it assigns reset_sequences = True.
SetsResetSequences(transactional, reset_sequences) == transactional /\ reset_sequences

\* The class derived from the imported base; databases is None when the class
\* body leaves the attribute to the base class.
PytestDjangoTestCase(base, transactional, reset_sequences, _databases) ==
    [base |-> base,
     reset_sequences |-> SetsResetSequences(transactional, reset_sequences),
     databases |-> IF _databases # None THEN _databases ELSE None]

\* The finalizers the helper registers, for helper invocation number h.
RestoreFinalizer(h) == [op |-> "restore", call |-> h]
\* Mutant: _post_teardown registered where tearDownClass should be.
ClassFinalizer_PostTeardown(h) == [op |-> "post_teardown", call |-> h]

ClassFinalizer(h) == [op |-> "tearDownClass", call |-> h]
InstanceFinalizer(h) == [op |-> "post_teardown", call |-> h]

\* Mutant: all three finalizers are registered as soon as the gate is unblocked.
AfterUnblock_AllFinalizers(fins, h) ==
    AddFinalizer(AddFinalizer(AddFinalizer(fins,
        [op |-> "restore", call |-> h]),
        [op |-> "tearDownClass", call |-> h]),
        [op |-> "post_teardown", call |-> h])

\* Mutant: unblock() without registering restore.
AfterUnblock_NoRestore(fins, h) == fins

\* Finalizers registered right after django_db_blocker.unblock().
AfterUnblock(fins, h) == AddFinalizer(fins, RestoreFinalizer(h))

Event(op, h) == [op |-> op, call |-> h]

\* Entry of the helper up to request.addfinalizer(django_db_blocker.restore).
HelperEnter ==
    /\ InHelper("helper")
    /\ LET a == HelperArgs(Top.fix)
           h == Len(calls) + 1
       IN \/ /\ HelperSkips(a.transactional)
             /\ Return
             /\ UNCHANGED <<calls, log, blockerActive, blockerHistory, fixFinalizers>>
          \/ /\ ~HelperSkips(a.transactional)
             /\ BlockerUnblock
             /\ fixFinalizers' = AfterUnblock(fixFinalizers, h)
             /\ calls' = Append(calls, a)
             /\ log' = Append(log, Event("unblock", h))
             /\ stack' = SetTopPc("import")
             /\ UNCHANGED <<cache, nodeFinalizers, pending, outcome, phase>>
    /\ UNCHANGED <<config, testsRun, test, cases, liveSettings>>
    /\ UNCHANGED <<raised, suffixVars, sessionVars, queryVars>>

\* import_string(dotted_path) failing: the message of the ImportError it raises,
\* the dotted path kept as one chunk of the text.
import_string_error(dotted_path) ==
    <<"Module \"", dotted_path, "\" does not define the attribute/class">>

\* import_from_string(val, setting_name) failing: the message of the ImportError
\* it raises in place of import_string's.
import_from_string_error(val, setting_name) ==
    <<"Could not import '", val, "' for API setting '", setting_name, "'. ",
      "ImportError", ": ">> \o import_string_error(val) \o <<".">>

\* import_string(test_case_classname) and the class statement.
HelperImport ==
    /\ InHelper("import")
    /\ LET a == calls[Len(calls)]
           name == TestCaseClassname(a.transactional)
       IN \/ /\ name \in ImportableClasses
             /\ cases' = Append(cases, PytestDjangoTestCase(
                            name, a.transactional, a.reset_sequences, test.databases))
             /\ stack' = SetTopPc("setUpClass")
             /\ UNCHANGED <<cache, nodeFinalizers, pending, outcome, phase, raised>>
          \/ /\ name \notin ImportableClasses
             /\ Raise
             /\ raised' = Some(import_string_error(name))
             /\ UNCHANGED cases
    /\ UNCHANGED <<config, testsRun, test, fixFinalizers, calls, log,
                   blockerActive, blockerHistory, liveSettings>>
    /\ UNCHANGED <<suffixVars, sessionVars, queryVars>>

\* PytestDjangoTestCase.setUpClass(), which may raise, and its finalizer.
HelperSetUpClass ==
    /\ InHelper("setUpClass")
    /\ LET h == Len(calls)
       IN \/ /\ log' = Append(log, Event("setUpClass", h))
             /\ fixFinalizers' = AddFinalizer(fixFinalizers, ClassFinalizer(h))
             /\ stack' = SetTopPc("pre_setup")
             /\ UNCHANGED <<cache, nodeFinalizers, pending, outcome, phase, raised>>
          \/ /\ Raise
             /\ raised' = Some(<<"setUpClass raised">>)
             /\ UNCHANGED <<log, fixFinalizers>>
    /\ UNCHANGED <<config, testsRun, test, calls, cases,
                   blockerActive, blockerHistory, liveSettings>>
    /\ UNCHANGED <<suffixVars, sessionVars, queryVars>>

\* test_case._pre_setup(), which may raise, and its finalizer; the helper and
\* the fixture function that called it then return.
HelperPreSetup ==
    /\ InHelper("pre_setup")
    /\ LET h == Len(calls)
       IN \/ /\ log' = Append(log, Event("pre_setup", h))
             /\ fixFinalizers' = AddFinalizer(fixFinalizers, InstanceFinalizer(h))
             /\ Return
             /\ UNCHANGED raised
          \/ /\ Raise
             /\ raised' = Some(<<"_pre_setup raised">>)
             /\ UNCHANGED <<log, fixFinalizers>>
    /\ UNCHANGED <<config, testsRun, test, calls, cases,
                   blockerActive, blockerHistory, liveSettings>>
    /\ UNCHANGED <<suffixVars, sessionVars, queryVars>>

\* --------------------------------------------------- the fixtures

\* db: "django_db_reset_sequences" in request.fixturenames.
DbRequestsResetSequences == "django_db_reset_sequences" \in test.fixturenames

\* Mutant: db looks for live_server only.
DbDefersToTransactional_LiveServerOnly == "live_server" \in test.fixturenames

\* db: the condition under which it defers to transactional_db.
DbDefersToTransactional ==
    \/ "transactional_db" \in test.fixturenames
    \/ "live_server" \in test.fixturenames

\* db, first if statement.
DbResetSequences ==
    /\ Running("db", "db_reset_sequences")
    /\ stack' = IF DbRequestsResetSequences
                THEN GetFixtureValue("django_db_reset_sequences", "db_transactional")
                ELSE SetTopPc("db_transactional")
    /\ UNCHANGED <<config, testsRun, test, phase, outcome, pending, cache,
                   fixFinalizers, nodeFinalizers, calls, cases, log,
                   blockerActive, blockerHistory, liveSettings>>
    /\ UNCHANGED <<raised, suffixVars, sessionVars, queryVars>>

\* db, second if statement: transactional_db, or the helper with transactional=False.
DbTransactional ==
    /\ Running("db", "db_transactional")
    /\ stack' = IF DbDefersToTransactional
                THEN GetFixtureValue("transactional_db", "return")
                ELSE SetTopPc("helper")
    /\ UNCHANGED <<config, testsRun, test, phase, outcome, pending, cache,
                   fixFinalizers, nodeFinalizers, calls, cases, log,
                   blockerActive, blockerHistory, liveSettings>>
    /\ UNCHANGED <<raised, suffixVars, sessionVars, queryVars>>

\* db returns after request.getfixturevalue("transactional_db").
DbReturn ==
    /\ Running("db", "return")
    /\ Return
    /\ UNCHANGED <<config, testsRun, test, fixFinalizers, calls, cases, log,
                   blockerActive, blockerHistory, liveSettings>>
    /\ UNCHANGED <<raised, suffixVars, sessionVars, queryVars>>

\* transactional_db, its if statement; the helper follows with transactional=True.
TransactionalDbResetSequences ==
    /\ Running("transactional_db", "transactional_db_reset_sequences")
    /\ stack' = IF "django_db_reset_sequences" \in test.fixturenames
                THEN GetFixtureValue("django_db_reset_sequences", "helper")
                ELSE SetTopPc("helper")
    /\ UNCHANGED <<config, testsRun, test, phase, outcome, pending, cache,
                   fixFinalizers, nodeFinalizers, calls, cases, log,
                   blockerActive, blockerHistory, liveSettings>>
    /\ UNCHANGED <<raised, suffixVars, sessionVars, queryVars>>

\* _live_server_helper: nothing without live_server, else transactional_db.
LiveServerHelperCheck ==
    /\ Running("_live_server_helper", "live_server_check")
    /\ \/ /\ "live_server" \notin test.fixturenames
          /\ Return
       \/ /\ "live_server" \in test.fixturenames
          /\ stack' = GetFixtureValue("transactional_db", "live_server_enable")
          /\ UNCHANGED <<cache, nodeFinalizers, pending, outcome, phase>>
    /\ UNCHANGED <<config, testsRun, test, fixFinalizers, calls, cases, log,
                   blockerActive, blockerHistory, liveSettings>>
    /\ UNCHANGED <<raised, suffixVars, sessionVars, queryVars>>

\* _live_server_helper: enable the live server's settings for this test.
LiveServerHelperEnable ==
    /\ Running("_live_server_helper", "live_server_enable")
    /\ liveSettings' = TRUE
    /\ fixFinalizers' = AddFinalizer(fixFinalizers, [op |-> "settings_disable", call |-> 0])
    /\ Return
    /\ UNCHANGED <<config, testsRun, test, calls, cases, log,
                   blockerActive, blockerHistory>>
    /\ UNCHANGED <<raised, suffixVars, sessionVars, queryVars>>

\* --------------------------------------------------- pytest running one test

\* db, transactional_db and django_db_reset_sequences take django_db_setup as an
\* argument, and live_server brings transactional_db in: pytest instantiates the
\* session-scoped django_db_setup before the first such test's own fixtures.
NeedsDbSetup(fn) == fn \cap (DbFixtures \cup {"live_server"}) # {}

\* A test item starts: its fixture closure, whether its class is a Django
\* unittest class, and the databases its django_db marker declared. A test that
\* needs django_db_setup starts its own fixtures once that one has returned.
StartTest ==
    /\ phase = "idle"
    /\ sessionPhase = "running"
    /\ testsRun < MaxTests
    /\ \E fn \in SUBSET RequestableFixtures, u \in BOOLEAN, d \in DatabasesValues :
          /\ IF NeedsDbSetup(fn) THEN dbSetup = "done"
                                 ELSE dbSetup \in {"none", "done", "failed"}
          /\ test' = [fixturenames |-> fn, is_django_unittest |-> u, databases |-> d]
          /\ pending' = (fn \cap DbFixtures) \cup {"_live_server_helper"}
    /\ testsRun' = testsRun + 1
    /\ phase' = "setup"
    /\ outcome' = "none"
    /\ stack' = <<>>
    /\ cache' = NoCache
    /\ fixFinalizers' = NoFinalizers
    /\ nodeFinalizers' = <<>>
    /\ calls' = <<>>
    /\ cases' = <<>>
    /\ log' = <<>>
    /\ raised' = None
    /\ UNCHANGED <<config, blockerActive, blockerHistory, liveSettings>>
    /\ UNCHANGED <<suffixVars, sessionVars, queryVars>>

\* pytest instantiates the next fixture of the test, in whatever order the
\* test's declaration gives; one a fixture already requested is not run again.
PytestInstantiate ==
    /\ phase = "setup"
    /\ stack = <<>>
    /\ \E f \in pending :
          /\ pending' = pending \ {f}
          /\ stack' = IF cache[f] = "none"
                      THEN <<[fix |-> f, pc |-> EntryPc(f)]>>
                      ELSE <<>>
    /\ UNCHANGED <<config, testsRun, test, phase, outcome, cache, fixFinalizers,
                   nodeFinalizers, calls, cases, log, blockerActive,
                   blockerHistory, liveSettings>>
    /\ UNCHANGED <<raised, suffixVars, sessionVars, queryVars>>

\* Every fixture is set up: the test function is called.
CallTest ==
    /\ phase = "setup"
    /\ stack = <<>>
    /\ pending = {}
    /\ phase' = "call"
    /\ UNCHANGED <<config, testsRun, test, outcome, pending, stack, cache,
                   fixFinalizers, nodeFinalizers, calls, cases, log,
                   blockerActive, blockerHistory, liveSettings>>
    /\ UNCHANGED <<raised, suffixVars, sessionVars, queryVars>>

\* The test function returns or raises.
TestBody ==
    /\ phase = "call"
    /\ \E o \in {"passed", "failed"} : outcome' = o
    /\ phase' = "teardown"
    /\ UNCHANGED <<config, testsRun, test, pending, stack, cache,
                   fixFinalizers, nodeFinalizers, calls, cases, log,
                   blockerActive, blockerHistory, liveSettings>>
    /\ UNCHANGED <<raised, suffixVars, sessionVars, queryVars>>

\* Teardown: the fixture scheduled last is finished first, and its finalizers
\* run last registered first.
RunFinalizer ==
    /\ phase = "teardown"
    /\ nodeFinalizers # <<>>
    /\ LET f == nodeFinalizers[Len(nodeFinalizers)]
           fins == fixFinalizers[f]
           fin == fins[Len(fins)]
       IN /\ fins # <<>>
          /\ fixFinalizers' = [fixFinalizers EXCEPT ![f] = Front(fins)]
          /\ \/ /\ fin.op = "restore"
                /\ BlockerRestore
                /\ log' = Append(log, Event("restore", fin.call))
                /\ UNCHANGED liveSettings
             \/ /\ fin.op \in {"tearDownClass", "post_teardown"}
                /\ log' = Append(log, Event(fin.op, fin.call))
                /\ UNCHANGED <<blockerActive, blockerHistory, liveSettings>>
             \/ /\ fin.op = "settings_disable"
                /\ liveSettings' = FALSE
                /\ UNCHANGED <<blockerActive, blockerHistory, log>>
    /\ UNCHANGED <<config, testsRun, test, phase, outcome, pending, stack, cache,
                   nodeFinalizers, calls, cases>>
    /\ UNCHANGED <<raised, suffixVars, sessionVars, queryVars>>

\* FixtureDef.finish has run all the finalizers of the fixture scheduled last.
FinishFixture ==
    /\ phase = "teardown"
    /\ nodeFinalizers # <<>>
    /\ fixFinalizers[nodeFinalizers[Len(nodeFinalizers)]] = <<>>
    /\ nodeFinalizers' = Front(nodeFinalizers)
    /\ UNCHANGED <<config, testsRun, test, phase, outcome, pending, stack, cache,
                   fixFinalizers, calls, cases, log, blockerActive,
                   blockerHistory, liveSettings>>
    /\ UNCHANGED <<raised, suffixVars, sessionVars, queryVars>>

\* Teardown of the test item is complete: the item and its request are dropped.
EndTest ==
    /\ phase = "teardown"
    /\ nodeFinalizers = <<>>
    /\ phase' = "idle"
    /\ test' = NoTest
    /\ outcome' = "none"
    /\ cache' = NoCache
    /\ calls' = <<>>
    /\ cases' = <<>>
    /\ log' = <<>>
    /\ raised' = None
    /\ UNCHANGED <<config, testsRun, pending, stack, fixFinalizers,
                   nodeFinalizers, blockerActive, blockerHistory, liveSettings>>
    /\ UNCHANGED <<suffixVars, sessionVars, queryVars>>

\* --------------------------------------------------- parallel suffix resolvers

Workers == {1, 2}

\* Python truthiness of an optional formatted string.
TruthyStr(o) == o # None /\ o[1] # EmptyStr

Sqlite == "django.db.backends.sqlite3"
Postgres == "django.db.backends.postgresql"
Memory == <<":memory:">>

\* One entry of settings.DATABASES. TEST is None when the key is absent, and
\* TEST[1].NAME is None when the TEST dict has no NAME.
DbSettings(engine, name, t) == [ENGINE |-> engine, NAME |-> name, TEST |-> t]
TestDict(name) == Some([NAME |-> name])

DbChoices ==
    {DbSettings(Postgres, <<"myapp">>, None),
     DbSettings(Postgres, <<"myapp">>, TestDict(None)),
     DbSettings(Postgres, <<"myapp">>, TestDict(Some(<<"custom">>))),
     DbSettings(Postgres, <<"myapp">>, TestDict(Some(EmptyStr))),
     DbSettings(Sqlite, <<"db.sqlite3">>, None),
     DbSettings(Sqlite, <<"db.sqlite3">>, TestDict(Some(Memory))),
     DbSettings(Sqlite, <<"db.sqlite3">>, TestDict(Some(<<"file.db">>)))}

ReplicaChoices ==
    {DbSettings(Postgres, <<"replica">>, None),
     DbSettings(Sqlite, <<"db.sqlite3">>, None)}

ToxValues == {None, Some(EmptyStr), Some(<<"py311-django42">>), Some(<<"gw3">>)}
XdistValues == {None, Some(<<"gw3">>), Some(<<"gw4">>)}

\* db_settings.get("TEST", {}).get("NAME")
TestName(db) == IF db.TEST = None THEN None ELSE db.TEST[1].NAME

\* The last two statements of the loop body.
WithSuffix(db, test_name, suffix) ==
    [db EXCEPT !.TEST = TestDict(Some(test_name \o <<"_">> \o suffix))]

\* Mutant: the loop body without the ":memory:" test.
SetSuffixToDb_NoMemoryCheck(db, suffix) ==
    LET test_name == TestName(db)
    IN IF ~TruthyStr(test_name)
       THEN IF db.ENGINE = Sqlite
            THEN db
            ELSE WithSuffix(db, <<"test", "_">> \o db.NAME, suffix)
       ELSE WithSuffix(db, test_name[1], suffix)

\* The loop body for one entry of settings.DATABASES.
SetSuffixToDb(db, suffix) ==
    LET test_name == TestName(db)
    IN IF ~TruthyStr(test_name)
       THEN IF db.ENGINE = Sqlite
            THEN db
            ELSE WithSuffix(db, <<"test", "_">> \o db.NAME, suffix)
       ELSE IF test_name[1] = Memory
            THEN db
            ELSE WithSuffix(db, test_name[1], suffix)

_set_suffix_to_test_databases(dbs, suffix) ==
    [alias \in DOMAIN dbs |-> SetSuffixToDb(dbs[alias], suffix)]

\* What a session-scoped resolver does with the identifier it read.
ApplySuffix(w, ident) ==
    IF TruthyStr(ident)
    THEN /\ databases' = [databases EXCEPT
                            ![w] = _set_suffix_to_test_databases(@, ident[1])]
         /\ applied' = [applied EXCEPT ![w] = Append(@, ident[1])]
    ELSE UNCHANGED <<databases, applied>>

\* Mutant: the two arguments in the other order.
ResolverOrder_XdistFirst == <<"xdist", "tox">>

\* The arguments of django_db_modify_db_settings_parallel_suffix, which pytest
\* instantiates in this order, once per session.
ResolverOrder == <<"tox", "xdist">>

NextResolver(w, name) == wpc[w] < Len(ResolverOrder) /\ ResolverOrder[wpc[w] + 1] = name

django_db_modify_db_settings_tox_suffix(w) ==
    /\ NextResolver(w, "tox")
    /\ ApplySuffix(w, environ[w].TOX_PARALLEL_ENV)
    /\ wpc' = [wpc EXCEPT ![w] = @ + 1]
    /\ UNCHANGED <<configured, environ>>
    /\ UNCHANGED <<testVars, sessionVars, queryVars>>

django_db_modify_db_settings_xdist_suffix(w) ==
    /\ NextResolver(w, "xdist")
    /\ ApplySuffix(w, environ[w].workerid)
    /\ wpc' = [wpc EXCEPT ![w] = @ + 1]
    /\ UNCHANGED <<configured, environ>>
    /\ UNCHANGED <<testVars, sessionVars, queryVars>>

\* Worker w has run django_db_modify_db_settings.
Resolved(w) == wpc[w] = Len(ResolverOrder)

\* --------------------------------------------------- django_db_setup

\* The worker process whose session is followed.
ThisWorker == 1

OptionSets == [nomigrations : BOOLEAN, reuse_db : BOOLEAN, create_db : BOOLEAN]

django_db_use_migrations == ~dbOptions.nomigrations
django_db_keepdb == dbOptions.reuse_db
django_db_createdb == dbOptions.create_db

\* settings.MIGRATION_MODULES and migrate.Command as Django and the settings
\* module define them, and as _disable_native_migrations leaves them.
NativeMigrations == [MIGRATION_MODULES |-> "settings", Command |-> "migrate.Command"]
_disable_native_migrations ==
    [MIGRATION_MODULES |-> "DisableMigrations", Command |-> "MigrateSilentCommand"]

\* Mutant: keepdb is handed on whenever --reuse-db is given.
setup_databases_args_IgnoresCreateDb ==
    [keepdb |-> IF django_db_keepdb THEN Some(TRUE) ELSE None]

\* setup_databases_args: the keepdb keyword, present or not.
setup_databases_args ==
    [keepdb |-> IF django_db_keepdb /\ ~django_db_createdb THEN Some(TRUE) ELSE None]

\* Mutant: django_db_setup does not ask for django_db_modify_db_settings.
DbSetupDependencies_None == TRUE

\* django_db_setup's argument django_db_modify_db_settings: pytest has run it,
\* and through it both suffix resolvers, before django_db_setup is entered.
DbSetupDependencies == Resolved(ThisWorker)

\* Mutant: the with block leaves the gate as it is.
WithUnblockExit_Noop == UNCHANGED <<blockerActive, blockerHistory>>

\* End of a "with django_db_blocker.unblock():" block, by return or by raise.
WithUnblockExit == BlockerRestore

\* Mutant: the teardown finalizer is registered whatever django_db_keepdb is.
RegistersTeardown_Always == TRUE

\* if not django_db_keepdb: request.addfinalizer(teardown_database)
RegistersTeardown == ~django_db_keepdb

\* Mutant: teardown_database has no except clause.
TeardownExcept_Propagates(raises) == [warned |-> <<>>, propagated |-> raises]

\* try: teardown_databases(...) except Exception as exc: request.node.warn(...)
TeardownExcept(raises) ==
    [warned |-> IF raises THEN <<"Error when trying to teardown test databases">>
                          ELSE <<>>,
     propagated |-> FALSE]

\* django_db_setup up to the with statement: the empty argument dict, and
\* _disable_native_migrations() unless migrations are to be used.
DbSetupEnter ==
    /\ phase = "idle"
    /\ sessionPhase = "running"
    /\ dbSetup = "none"
    /\ DbSetupDependencies
    /\ migration' = IF django_db_use_migrations THEN migration
                                                ELSE _disable_native_migrations
    /\ dbSetup' = "args"
    /\ UNCHANGED <<dbOptions, setupCalls, teardownCalls, warnings,
                   sessionFinalizers, sessionPhase, sessionError>>
    /\ UNCHANGED <<testVars, suffixVars, queryVars>>

\* with django_db_blocker.unblock():
DbSetupUnblock ==
    /\ dbSetup = "args"
    /\ BlockerUnblock
    /\ dbSetup' = "unblocked"
    /\ UNCHANGED <<dbOptions, migration, setupCalls, teardownCalls, warnings,
                   sessionFinalizers, sessionPhase, sessionError>>
    /\ UNCHANGED <<config, testsRun, test, phase, outcome, pending, stack, cache,
                   fixFinalizers, nodeFinalizers, calls, cases, log, liveSettings,
                   raised>>
    /\ UNCHANGED <<suffixVars, queryVars>>

\* db_cfg = setup_databases(...), which returns or raises; the with block ends;
\* if it returned, teardown_database is defined and conditionally registered.
DbSetupCreate ==
    /\ dbSetup = "unblocked"
    /\ setupCalls' = Append(setupCalls,
                         [keepdb |-> setup_databases_args.keepdb,
                          gate |-> blockerActive,
                          migration |-> migration,
                          resolved |-> Resolved(ThisWorker),
                          databases |-> databases[ThisWorker]])
    /\ WithUnblockExit
    /\ \/ /\ dbSetup' = "done"
          /\ sessionFinalizers' = IF RegistersTeardown
                                  THEN Append(sessionFinalizers, "teardown_database")
                                  ELSE sessionFinalizers
       \/ /\ dbSetup' = "failed"
          /\ UNCHANGED sessionFinalizers
    /\ UNCHANGED <<dbOptions, migration, teardownCalls, warnings, sessionPhase,
                   sessionError>>
    /\ UNCHANGED <<config, testsRun, test, phase, outcome, pending, stack, cache,
                   fixFinalizers, nodeFinalizers, calls, cases, log, liveSettings,
                   raised>>
    /\ UNCHANGED <<suffixVars, queryVars>>

\* A test that needs django_db_setup after setup_databases raised: pytest raises
\* the cached exception again, none of the test's own database fixtures runs.
DbSetupErrorTest ==
    /\ phase = "idle"
    /\ sessionPhase = "running"
    /\ testsRun < MaxTests
    /\ dbSetup = "failed"
    /\ \E fn \in SUBSET RequestableFixtures, u \in BOOLEAN, d \in DatabasesValues :
          /\ NeedsDbSetup(fn)
          /\ test' = [fixturenames |-> fn, is_django_unittest |-> u, databases |-> d]
    /\ testsRun' = testsRun + 1
    /\ phase' = "teardown"
    /\ outcome' = "error"
    /\ raised' = Some(<<"setup_databases raised">>)
    /\ UNCHANGED <<config, pending, stack, cache, fixFinalizers, nodeFinalizers,
                   calls, cases, log, blockerActive, blockerHistory, liveSettings>>
    /\ UNCHANGED <<suffixVars, sessionVars, queryVars>>

\* The last test is over: pytest starts to finish the session-scoped fixtures.
SessionFinish ==
    /\ phase = "idle"
    /\ sessionPhase = "running"
    /\ dbSetup \in {"none", "done", "failed"}
    /\ sessionPhase' = "finishing"
    /\ UNCHANGED <<dbOptions, dbSetup, migration, setupCalls, teardownCalls,
                   warnings, sessionFinalizers, sessionError>>
    /\ UNCHANGED <<testVars, suffixVars, queryVars>>

\* teardown_database is called: with django_db_blocker.unblock():
TeardownEnter ==
    /\ sessionPhase = "finishing"
    /\ sessionFinalizers # <<>>
    /\ sessionFinalizers' = Front(sessionFinalizers)
    /\ BlockerUnblock
    /\ sessionPhase' = "teardown_database"
    /\ UNCHANGED <<dbOptions, dbSetup, migration, setupCalls, teardownCalls,
                   warnings, sessionError>>
    /\ UNCHANGED <<config, testsRun, test, phase, outcome, pending, stack, cache,
                   fixFinalizers, nodeFinalizers, calls, cases, log, liveSettings,
                   raised>>
    /\ UNCHANGED <<suffixVars, queryVars>>

\* teardown_databases(db_cfg, ...), which returns or raises an Exception; the
\* except clause; the with block ends.
TeardownDatabases ==
    /\ sessionPhase = "teardown_database"
    /\ \E raises \in BOOLEAN :
          /\ teardownCalls' = Append(teardownCalls,
                                     [raised |-> raises, gate |-> blockerActive])
          /\ warnings' = warnings \o TeardownExcept(raises).warned
          /\ sessionError' = (sessionError \/ TeardownExcept(raises).propagated)
    /\ WithUnblockExit
    /\ sessionPhase' = "finishing"
    /\ UNCHANGED <<dbOptions, dbSetup, migration, setupCalls, sessionFinalizers>>
    /\ UNCHANGED <<config, testsRun, test, phase, outcome, pending, stack, cache,
                   fixFinalizers, nodeFinalizers, calls, cases, log, liveSettings,
                   raised>>
    /\ UNCHANGED <<suffixVars, queryVars>>

\* Every session finalizer has run.
SessionEnd ==
    /\ sessionPhase = "finishing"
    /\ sessionFinalizers = <<>>
    /\ sessionPhase' = "finished"
    /\ UNCHANGED <<dbOptions, dbSetup, migration, setupCalls, teardownCalls,
                   warnings, sessionFinalizers, sessionError>>
    /\ UNCHANGED <<testVars, suffixVars, queryVars>>

\* --------------------------------------------------- _assert_num_queries

\* "{}".format(n) for a count n.
Digit == <<"0", "1", "2", "3", "4", "5", "6", "7", "8", "9">>
RECURSIVE Str(_)
Str(n) == IF n < Len(Digit)
          THEN <<Digit[n + 1]>>
          ELSE Str(n \div Len(Digit)) \o <<Digit[(n % Len(Digit)) + 1]>>

\* sep.join(strings)
RECURSIVE Join(_, _)
Join(strings, sep) ==
    IF strings = <<>> THEN EmptyStr
    ELSE IF Len(strings) = 1 THEN strings[1]
    ELSE strings[1] \o sep \o Join(Tail(strings), sep)

\* config.getoption("verbose"): -q, nothing, -v.
VerboseValues == {-1, 0, 1}
InfoValues == {None, Some(EmptyStr), Some(<<"after login">>)}
AssertFixtures == {"django_assert_num_queries", "django_assert_max_num_queries"}

\* The statement the wrapped block executes as its i-th query.
Sql(i) == <<"SELECT ", Str(i)>>

\* django_assert_num_queries leaves exact at its default, True;
\* django_assert_max_num_queries binds exact=False.
Exact(fixture) == fixture = "django_assert_num_queries"

\* Mutant: the exact comparison is used for both fixtures.
QueriesFailed_AlwaysExact(num, num_performed, exact) == num # num_performed

\* failed = num != num_performed if exact, else num_performed > num
QueriesFailed(num, num_performed, exact) ==
    IF exact THEN num # num_performed ELSE num_performed > num

\* msg as pytest.fail receives it.
QueriesMessage(num, exact, verbose, info, sqls) ==
    LET num_performed == Len(sqls)
        done == <<"but ">>
                \o (IF num_performed = 1 THEN <<"1 was">>
                                          ELSE Str(num_performed) \o <<" were">>)
                \o <<" done">>
        head == <<"Expected to perform ">> \o Str(num) \o <<" queries ">>
                \o (IF exact THEN EmptyStr ELSE <<"or less ">>) \o done
        with_info == IF info # None /\ info[1] # EmptyStr
                     THEN head \o <<"\n">> \o info[1] ELSE head
    IN IF verbose
       THEN with_info \o <<"\n\nQueries:\n========\n\n">> \o Join(sqls, <<"\n\n">>)
       ELSE with_info \o <<" (add -v option to show queries)">>

NoAssertion ==
    [fixture |-> "none", num |-> 0, verbose |-> 0, info |-> None,
     captured |-> <<>>, state |-> "none", failure |-> None]

\* The wrapped block performs one more query; CaptureQueriesContext records it.
ExecuteQuery ==
    /\ assertion.state = "open"
    /\ Len(assertion.captured) < MaxQueries
    /\ assertion' = [assertion EXCEPT
                        !.captured = Append(@, Sql(Len(assertion.captured) + 1))]
    /\ UNCHANGED <<testVars, suffixVars, sessionVars>>

\* The wrapped block returns: the statements after the yield run.
BlockReturns ==
    /\ assertion.state = "open"
    /\ LET a == assertion
           exact == Exact(a.fixture)
           verbose == a.verbose > 0
       IN assertion' = [a EXCEPT
             !.state = "returned",
             !.failure = IF QueriesFailed(a.num, Len(a.captured), exact)
                         THEN Some(QueriesMessage(a.num, exact, verbose, a.info,
                                                  a.captured))
                         ELSE None]
    /\ UNCHANGED <<testVars, suffixVars, sessionVars>>

\* The wrapped block raises: the exception leaves the generator at the yield.
BlockRaises ==
    /\ assertion.state = "open"
    /\ assertion' = [assertion EXCEPT !.state = "raised"]
    /\ UNCHANGED <<testVars, suffixVars, sessionVars>>

\* --------------------------------------------------- specifications

DefaultConfig ==
    [transaction_testcase_class |-> None, DJANGO_TRANSACTION_TEST_CASE_CLASS |-> None,
     testcase_class |-> None, DJANGO_TEST_CASE_CLASS |-> None]

\* No test is running; the blocker is in the state the plugin creates it in.
TestIdle ==
    /\ testsRun = 0
    /\ test = NoTest
    /\ phase = "idle"
    /\ outcome = "none"
    /\ pending = {}
    /\ stack = <<>>
    /\ cache = NoCache
    /\ fixFinalizers = NoFinalizers
    /\ nodeFinalizers = <<>>
    /\ calls = <<>>
    /\ cases = <<>>
    /\ log = <<>>
    /\ blockerActive = "blocked"
    /\ blockerHistory = <<>>
    /\ liveSettings = FALSE
    /\ raised = None

\* django_db_setup has not been requested yet.
SessionNew ==
    /\ dbSetup = "none"
    /\ migration = NativeMigrations
    /\ setupCalls = <<>>
    /\ teardownCalls = <<>>
    /\ warnings = <<>>
    /\ sessionFinalizers = <<>>
    /\ sessionPhase = "running"
    /\ sessionError = FALSE

\* django_db_setup has returned, under the default options.
SessionReady ==
    /\ dbOptions = [nomigrations |-> FALSE, reuse_db |-> FALSE, create_db |-> FALSE]
    /\ dbSetup = "done"
    /\ migration = NativeMigrations
    /\ setupCalls = <<[keepdb |-> None, gate |-> "unblocked",
                       migration |-> NativeMigrations, resolved |-> TRUE,
                       databases |-> configured]>>
    /\ teardownCalls = <<>>
    /\ warnings = <<>>
    /\ sessionFinalizers = <<"teardown_database">>
    /\ sessionPhase = "running"
    /\ sessionError = FALSE

Init ==
    /\ config \in Configs
    /\ TestIdle
    /\ configured = [default |-> DbSettings(Postgres, <<"myapp">>, None)]
    /\ databases = [w \in Workers |-> configured]
    /\ environ = [w \in Workers |-> [TOX_PARALLEL_ENV |-> None, workerid |-> None]]
    /\ wpc = [w \in Workers |-> Len(ResolverOrder)]
    /\ applied = [w \in Workers |-> <<>>]
    /\ SessionReady
    /\ assertion = NoAssertion

Next ==
    \/ StartTest
    \/ PytestInstantiate
    \/ DbResetSequences
    \/ DbTransactional
    \/ DbReturn
    \/ TransactionalDbResetSequences
    \/ LiveServerHelperCheck
    \/ LiveServerHelperEnable
    \/ HelperEnter
    \/ HelperImport
    \/ HelperSetUpClass
    \/ HelperPreSetup
    \/ CallTest
    \/ TestBody
    \/ RunFinalizer
    \/ FinishFixture
    \/ EndTest

Spec == Init /\ [][Next]_vars

\* Both workers read the same settings module; each has its own environment.
InitSuffix ==
    /\ config = DefaultConfig
    /\ TestIdle
    /\ dbOptions = [nomigrations |-> FALSE, reuse_db |-> FALSE, create_db |-> FALSE]
    /\ SessionNew
    /\ assertion = NoAssertion
    /\ \E d \in DbChoices, r \in ReplicaChoices :
          configured = [default |-> d, replica |-> r]
    /\ databases = [w \in Workers |-> configured]
    /\ environ \in [Workers -> [TOX_PARALLEL_ENV : ToxValues, workerid : XdistValues]]
    /\ wpc = [w \in Workers |-> 0]
    /\ applied = [w \in Workers |-> <<>>]

NextSuffix ==
    \E w \in Workers :
        \/ django_db_modify_db_settings_tox_suffix(w)
        \/ django_db_modify_db_settings_xdist_suffix(w)

SpecSuffix == InitSuffix /\ [][NextSuffix]_vars

\* One worker's session from before django_db_setup to after the session
\* finalizers: the options, the worker identifiers and the settings vary.
InitSession ==
    /\ config = DefaultConfig
    /\ TestIdle
    /\ configured = [default |-> DbSettings(Postgres, <<"myapp">>, None)]
    /\ databases = [w \in Workers |-> configured]
    /\ \E t \in {None, Some(<<"py311-django42">>)}, x \in {None, Some(<<"gw3">>)} :
          environ = [w \in Workers |->
                        IF w = ThisWorker
                        THEN [TOX_PARALLEL_ENV |-> t, workerid |-> x]
                        ELSE [TOX_PARALLEL_ENV |-> None, workerid |-> None]]
    /\ wpc = [w \in Workers |-> IF w = ThisWorker THEN 0 ELSE Len(ResolverOrder)]
    /\ applied = [w \in Workers |-> <<>>]
    /\ dbOptions \in OptionSets
    /\ SessionNew
    /\ assertion = NoAssertion

NextSession ==
    \/ Next
    \/ NextSuffix
    \/ DbSetupEnter
    \/ DbSetupUnblock
    \/ DbSetupCreate
    \/ DbSetupErrorTest
    \/ SessionFinish
    \/ TeardownEnter
    \/ TeardownDatabases
    \/ SessionEnd

SpecSession == InitSession /\ [][NextSession]_vars

\* One use of django_assert_num_queries or django_assert_max_num_queries, from
\* the start of the with block.
InitQueries ==
    /\ config = DefaultConfig
    /\ TestIdle
    /\ configured = [default |-> DbSettings(Postgres, <<"myapp">>, None)]
    /\ databases = [w \in Workers |-> configured]
    /\ environ = [w \in Workers |-> [TOX_PARALLEL_ENV |-> None, workerid |-> None]]
    /\ wpc = [w \in Workers |-> Len(ResolverOrder)]
    /\ applied = [w \in Workers |-> <<>>]
    /\ SessionReady
    /\ \E f \in AssertFixtures, n \in 0..MaxQueries, v \in VerboseValues,
          i \in InfoValues :
          assertion = [fixture |-> f, num |-> n, verbose |-> v, info |-> i,
                       captured |-> <<>>, state |-> "open", failure |-> None]

NextQueries ==
    \/ ExecuteQuery
    \/ BlockReturns
    \/ BlockRaises

SpecQueries == InitQueries /\ [][NextQueries]_vars

\* =================================================== properties

\* ---- vocabulary of the per-test properties ----

Requested == test.fixturenames \cap DbFixtures
Native == test.is_django_unittest
LiveServer == "live_server" \in test.fixturenames

\* Every finalizer scheduled for the test has run.
Finished == phase = "teardown" /\ nodeFinalizers = <<>>

\* The test function was called (no fixture raised) and has returned or raised.
BodyRan == outcome \in {"passed", "failed"}

Count(op) == Cardinality({i \in 1..Len(log) : log[i].op = op})
Ops(events) == [i \in 1..Len(events) |-> events[i].op]

\* The classes a transactional test case may derive from, and the others.
TransactionalBases == {"django.test.TransactionTestCase", "myapp.TxnOptCase", "myapp.TxnEnvCase"}
PlainBases == {"django.test.TestCase", "myapp.OptCase", "myapp.EnvCase"}

\* The isolation level a derived test case gives the test.
LevelOf(c) ==
    IF c.base \in PlainBases THEN "Plain"
    ELSE IF c.reset_sequences THEN "TransactionalResetSeq" ELSE "Transactional"

\* The precedence rule: sequence reset, else transactional (also forced by
\* live_server), else plain.
ExpectedLevel ==
    IF "django_db_reset_sequences" \in Requested THEN "TransactionalResetSeq"
    ELSE IF "transactional_db" \in Requested \/ LiveServer THEN "Transactional"
    ELSE "Plain"

AcquireOps == <<"unblock", "setUpClass", "pre_setup">>
ReleaseOps == <<"post_teardown", "tearDownClass", "restore">>
IsAcquire(e) == e.op \in {"unblock", "setUpClass", "pre_setup"}
IsRelease(e) == e.op \in {"post_teardown", "tearDownClass", "restore"}
Acquired == SelectSeq(log, IsAcquire)
Released == SelectSeq(log, IsRelease)

\* The release that undoes an acquisition.
ReleaseOf(e) ==
    [op |-> CASE e.op = "unblock" -> "restore"
              [] e.op = "setUpClass" -> "tearDownClass"
              [] e.op = "pre_setup" -> "post_teardown",
     call |-> e.call]

IsPrefix(s, t) == Len(s) <= Len(t) /\ s = SubSeq(t, 1, Len(s))

\* C1: for a test that is not a native test case and requests at least one of
\* db, transactional_db, django_db_reset_sequences, when the test function is
\* called exactly one test case has had its class setup and pre-setup run, at
\* the highest requested level.
C1_ExactlyOneIsolationLevel ==
    (phase = "call" /\ ~Native /\ Requested # {}) =>
        /\ Len(cases) = 1
        /\ Count("setUpClass") = 1
        /\ Count("pre_setup") = 1
        /\ LevelOf(cases[1]) = ExpectedLevel

\* C2: a test requesting db and transactional_db (not django_db_reset_sequences)
\* is set up at most once at every moment, only ever on a transactional test
\* case and never by the plain path of db; unless it is a native test case it
\* has been set up exactly once when the test function is called, and its one
\* post-teardown has run when its finalizers are done.
C2_NoDoubleSetup ==
    ({"db", "transactional_db"} \subseteq Requested
        /\ "django_db_reset_sequences" \notin Requested) =>
        /\ \A op \in {"unblock", "setUpClass", "pre_setup",
                      "post_teardown", "tearDownClass", "restore"} : Count(op) <= 1
        /\ \A i \in 1..Len(calls) : calls[i].fix = "transactional_db"
        /\ \A i \in 1..Len(cases) : cases[i].base \in TransactionalBases
        /\ fixFinalizers["db"] = <<>>
        /\ (~Native /\ phase = "call") =>
              /\ Len(cases) = 1
              /\ Ops(log) = AcquireOps
        /\ (~Native /\ Finished /\ BodyRan) =>
              /\ Ops(log) = AcquireOps \o ReleaseOps
              /\ \A i \in 1..Len(log) : log[i].call = 1

C2_Witness ==
    /\ Requested = {"db", "transactional_db"}
    /\ ~Native
    /\ Finished
    /\ outcome = "passed"
    /\ Count("pre_setup") = 1
    /\ Count("post_teardown") = 1

\* C3: a test requesting live_server and, of the database fixtures, only db
\* never has a test case derived from the plain base class, and unless it is a
\* native test case its single test case, when the test function is called, is
\* transactional without sequence reset, whichever of _live_server_helper and
\* db pytest instantiated first.
C3_LiveServerForcesTransactional ==
    (Requested = {"db"} /\ LiveServer) =>
        /\ \A i \in 1..Len(cases) : cases[i].base \in TransactionalBases
        /\ \A i \in 1..Len(calls) : calls[i].transactional
        /\ Len(calls) <= 1
        /\ (~Native /\ phase = "call") =>
              /\ Len(cases) = 1
              /\ LevelOf(cases[1]) = "Transactional"
              /\ Count("setUpClass") = 1
              /\ Count("pre_setup") = 1

\* db was instantiated first and _live_server_helper is still to come.
C3_Witness ==
    /\ Requested = {"db"} /\ LiveServer /\ ~Native
    /\ phase = "setup"
    /\ cache["db"] = "ok"
    /\ "_live_server_helper" \in pending
    /\ Len(cases) = 1
    /\ Count("pre_setup") = 1

\* C4: every helper invocation acquires in the order unblock, class setup,
\* pre-setup; all releases come after all acquisitions and undo them in exactly
\* the reverse order; so a test at a single level that reaches its body has
\* acquired [unblock, setUpClass, pre_setup] and, once its finalizers are done,
\* released [post_teardown, tearDownClass, restore].
C4_AcquireReleaseOrder ==
    /\ log = Acquired \o Released
    /\ \A h \in 1..Len(calls) :
          LET IsCall(e) == e.call = h
          IN IsPrefix(Ops(SelectSeq(Acquired, IsCall)), AcquireOps)
    /\ \A i \in 1..Len(Acquired), j \in 1..Len(Acquired) :
          i <= j => Acquired[i].call <= Acquired[j].call
    /\ IsPrefix(Released, [i \in 1..Len(Acquired) |->
                              ReleaseOf(Acquired[Len(Acquired) + 1 - i])])
    /\ Finished => Len(Released) = Len(Acquired)
    /\ (Cardinality(Requested) = 1 /\ ~LiveServer /\ ~Native) =>
          /\ phase = "call" => Ops(log) = AcquireOps
          /\ (Finished /\ BodyRan) => Ops(log) = AcquireOps \o ReleaseOps

C4_Witness ==
    /\ Requested = {"django_db_reset_sequences"} /\ ~LiveServer /\ ~Native
    /\ Finished
    /\ outcome = "failed"
    /\ Len(cases) = 1 /\ LevelOf(cases[1]) = "TransactionalResetSeq"
    /\ Ops(log) = AcquireOps \o ReleaseOps

\* C5: when all finalizers of a test have run the gate is blocked again with
\* nothing saved, every unblock having been matched by one restore, whether the
\* test passed, failed or a fixture raised; between tests the gate is blocked.
C5_GateRestored ==
    /\ Count("restore") <= Count("unblock")
    /\ Len(blockerHistory) = Count("unblock") - Count("restore")
    /\ \A h \in 1..Len(calls) :
          Cardinality({i \in 1..Len(log) : log[i] = Event("restore", h)}) <= 1
    /\ Finished =>
          /\ Count("restore") = Count("unblock")
          /\ blockerActive = "blocked"
          /\ blockerHistory = <<>>
    /\ phase = "idle" => blockerActive = "blocked" /\ blockerHistory = <<>>

\* The import of the test-case class raised after the gate was unblocked.
C5_Witness ==
    /\ Finished
    /\ outcome = "error"
    /\ Len(calls) = 1 /\ Len(cases) = 0
    /\ Count("unblock") = 1 /\ Count("restore") = 1
    /\ blockerActive = "blocked"

\* C6: for a native Django test case the helper does nothing at any level: the
\* gate stays blocked with nothing saved, no helper finalizer is registered, no
\* class is resolved and no gate or test-case operation is performed.
C6_NativeTestCaseUntouched ==
    Native =>
        /\ blockerActive = "blocked"
        /\ blockerHistory = <<>>
        /\ \A f \in DbFixtures : fixFinalizers[f] = <<>>
        /\ calls = <<>>
        /\ cases = <<>>
        /\ log = <<>>

C6_Witness ==
    /\ Native
    /\ Requested = DbFixtures
    /\ phase = "call"
    /\ \A f \in DbFixtures : cache[f] = "ok"

\* C7: a test requesting only django_db_reset_sequences has, when its function
\* is called, a single test case, derived from the transactional base class,
\* with reset_sequences set; and every derived test case has reset_sequences
\* set iff the helper was invoked with transactional and reset_sequences both
\* true (the invocation by django_db_reset_sequences), and overrides databases,
\* with the declared aliases, iff the test declared databases.
C7_ResetSequencesClass ==
    /\ (Requested = {"django_db_reset_sequences"} /\ ~LiveServer /\ ~Native
            /\ phase = "call") =>
          /\ Len(cases) = 1
          /\ cases[1].base \in TransactionalBases
          /\ cases[1].reset_sequences
          /\ LevelOf(cases[1]) = "TransactionalResetSeq"
    /\ Len(cases) <= Len(calls)
    /\ \A i \in 1..Len(cases) :
          /\ cases[i].reset_sequences <=>
                (calls[i].transactional /\ calls[i].reset_sequences)
          /\ cases[i].reset_sequences <=> calls[i].fix = "django_db_reset_sequences"
          /\ cases[i].databases # None <=> test.databases # None
          /\ cases[i].databases = test.databases

C7_Witness ==
    /\ Requested = {"django_db_reset_sequences"} /\ ~LiveServer /\ ~Native
    /\ phase = "call"
    /\ test.databases = Some({"default", "replica"})
    /\ Len(cases) = 1
    /\ cases[1].reset_sequences
    /\ cases[1].databases = Some({"default", "replica"})

\* ---- vocabulary of the suffix properties ----

\* A worker identifier that is present: set and not empty.
Present(ident) == ident # None /\ ident[1] # EmptyStr

\* A test-specific name is configured for the entry.
HasTestName(db) == db.TEST # None /\ db.TEST[1].NAME # None /\ db.TEST[1].NAME[1] # EmptyStr

\* In-memory or file-less: test name ":memory:", or sqlite with no test name.
InMemory(db) ==
    \/ HasTestName(db) /\ db.TEST[1].NAME[1] = Memory
    \/ ~HasTestName(db) /\ db.ENGINE = Sqlite

Underscore(a, b) == a \o <<"_">> \o b

\* What one application of suffix s makes of entry old.
SuffixedAsSpecified(old, new, s) ==
    IF InMemory(old) THEN new = old
    ELSE /\ new.ENGINE = old.ENGINE
         /\ new.NAME = old.NAME
         /\ HasTestName(new)
         /\ new.TEST[1].NAME[1] =
               IF HasTestName(old)
               THEN Underscore(old.TEST[1].NAME[1], s)
               ELSE Underscore(Underscore(<<"test">>, old.NAME), s)

\* What a resolver that read identifier ident makes of the settings of worker w.
ResolverStep(w, ident) ==
    IF Present(ident)
    THEN \A alias \in DOMAIN databases[w] :
            SuffixedAsSpecified(databases[w][alias], databases'[w][alias], ident[1])
    ELSE databases'[w] = databases[w]

\* C8: every run of a resolver with a present identifier s turns a configured
\* test name t into t_s, gives a database without one the name test_<dbname>_s,
\* and leaves an in-memory database (test name ":memory:", or sqlite without a
\* test name) as it is; with the identifier absent it changes no database.
C8_SuffixPerDatabase ==
    [][\A w \in Workers :
          /\ (NextResolver(w, "tox") /\ wpc'[w] # wpc[w]) =>
                ResolverStep(w, environ[w].TOX_PARALLEL_ENV)
          /\ (NextResolver(w, "xdist") /\ wpc'[w] # wpc[w]) =>
                ResolverStep(w, environ[w].workerid)
          /\ wpc'[w] = wpc[w] => databases'[w] = databases[w]]_vars

\* After the tox resolver: one renamed test name, one synthesized, one in-memory.
C8_Witness ==
    /\ wpc[1] = 1
    /\ environ[1].TOX_PARALLEL_ENV = Some(<<"py311-django42">>)
    /\ configured.default = DbSettings(Sqlite, <<"db.sqlite3">>, TestDict(Some(Memory)))
    /\ databases[1].default = configured.default
    /\ configured.replica = DbSettings(Postgres, <<"replica">>, None)
    /\ databases[1].replica.TEST =
          TestDict(Some(<<"test", "_", "replica", "_", "py311-django42">>))
    /\ wpc[2] = 1
    /\ environ[2].TOX_PARALLEL_ENV = None
    /\ databases[2] = configured

\* C9: once a worker with tox environment t and xdist worker id w has resolved
\* its settings, the suffixes applied are exactly t then w, each once, and every
\* database that is not in-memory and has no test name configured is named
\* test_<n>_<t>_<w>, which is not test_<n>_<w>_<t> when t and w differ.
C9_ToxThenXdist ==
    \A k \in Workers :
        LET t == environ[k].TOX_PARALLEL_ENV
            x == environ[k].workerid
        IN (Resolved(k) /\ Present(t) /\ Present(x)) =>
              /\ applied[k] = <<t[1], x[1]>>
              /\ \A alias \in DOMAIN configured :
                    (~InMemory(configured[alias]) /\ ~HasTestName(configured[alias])) =>
                        /\ TestName(databases[k][alias]) =
                              Some(Underscore(Underscore(Underscore(
                                  <<"test">>, configured[alias].NAME), t[1]), x[1]))
                        /\ t # x => TestName(databases[k][alias]) #
                              Some(Underscore(Underscore(Underscore(
                                  <<"test">>, configured[alias].NAME), x[1]), t[1]))

C9_Witness ==
    /\ Resolved(1)
    /\ environ[1] = [TOX_PARALLEL_ENV |-> Some(<<"py311-django42">>),
                     workerid |-> Some(<<"gw3">>)]
    /\ configured.default = DbSettings(Postgres, <<"myapp">>, None)
    /\ TestName(databases[1].default) =
          Some(<<"test", "_", "myapp", "_", "py311-django42", "_", "gw3">>)

\* The identifiers of a worker, an empty one counting as absent.
Identifiers(k) ==
    <<IF Present(environ[k].TOX_PARALLEL_ENV) THEN environ[k].TOX_PARALLEL_ENV ELSE None,
      IF Present(environ[k].workerid) THEN environ[k].workerid ELSE None>>

\* C10: two workers that resolved the same settings with different identifiers
\* have different test names for every database that is not in-memory.
C10_DistinctPerWorker ==
    \A k1 \in Workers, k2 \in Workers :
        (Resolved(k1) /\ Resolved(k2) /\ Identifiers(k1) # Identifiers(k2)) =>
            \A alias \in DOMAIN configured :
                ~InMemory(configured[alias]) =>
                    TestName(databases[k1][alias]) # TestName(databases[k2][alias])


\* ---- vocabulary of the session properties ----

SessionOver == sessionPhase = "finished"
CreationCompleted == dbSetup = "done"
TeardownsRaised == {i \in 1..Len(teardownCalls) : teardownCalls[i].raised}

\* C11: teardown_databases is called at most once in a session, and only while
\* the session's finalizers run, after the last test; never when keepdb is
\* true, whatever createdb is; and once the session is over it has been called
\* exactly once iff keepdb is false and setup_databases returned.
C11_TeardownOnceUnlessKeepdb ==
    /\ Len(teardownCalls) <= 1
    /\ teardownCalls # <<>> =>
          /\ sessionPhase \in {"finishing", "finished"}
          /\ phase = "idle"
    /\ django_db_keepdb => teardownCalls = <<>>
    /\ SessionOver =>
          (Len(teardownCalls) = 1 <=> (~django_db_keepdb /\ CreationCompleted))

\* Tests ran against the created databases, which were then torn down.
C11_Witness ==
    /\ SessionOver
    /\ testsRun > 0
    /\ ~django_db_keepdb /\ django_db_createdb
    /\ CreationCompleted
    /\ Len(teardownCalls) = 1

\* C12: an exception raised by teardown_databases never leaves the finalizer:
\* each raising call attaches exactly one warning to the session and a call
\* that returns attaches none, and after the finalizer the gate is blocked
\* with nothing saved, as it is after a teardown that returned.
C12_TeardownFailureIsWarning ==
    /\ ~sessionError
    /\ sessionPhase \in {"finishing", "finished"} =>
          /\ Len(warnings) = Cardinality(TeardownsRaised)
          /\ blockerActive = "blocked"
          /\ blockerHistory = <<>>

C12_Witness ==
    /\ SessionOver
    /\ Len(teardownCalls) = 1
    /\ teardownCalls[1].raised
    /\ Len(warnings) = 1
    /\ blockerActive = "blocked"

\* C13: setup_databases is given keepdb=True iff keepdb is true and createdb is
\* false; in the three other combinations it is given no keepdb argument.
C13_KeepdbPassedIffNotCreatedb ==
    \A i \in 1..Len(setupCalls) :
        /\ setupCalls[i].keepdb \in {None, Some(TRUE)}
        /\ setupCalls[i].keepdb = Some(TRUE) <=>
              (django_db_keepdb /\ ~django_db_createdb)

C13_Witness ==
    /\ Len(setupCalls) = 1
    /\ django_db_keepdb /\ ~django_db_createdb
    /\ setupCalls[1].keepdb = Some(TRUE)
    /\ CreationCompleted

\* The per-test database fixtures have started something for the running test.
PerTestSetupBegun ==
    \/ calls # <<>>
    \/ log # <<>>
    \/ \E i \in 1..Len(stack) : stack[i].fix \in DbFixtures

\* C14: setup_databases is called at most once in a session and exactly once
\* by a django_db_setup that got past its with statement; when it is called
\* both suffix resolvers have run and the DATABASES setting is not changed
\* afterwards, and migrations are disabled iff use_migrations is false; no
\* per-test database fixture starts, so none runs class setup or pre-setup,
\* before setup_databases has returned.
C14_CreationOnceAfterResolvers ==
    /\ Len(setupCalls) <= 1
    /\ Len(setupCalls) = 1 <=> dbSetup \in {"done", "failed"}
    /\ \A i \in 1..Len(setupCalls) :
          /\ setupCalls[i].resolved
          /\ setupCalls[i].databases = databases[ThisWorker]
          /\ setupCalls[i].migration =
                IF django_db_use_migrations THEN NativeMigrations
                                            ELSE _disable_native_migrations
    /\ PerTestSetupBegun => CreationCompleted
    /\ (Count("setUpClass") > 0 \/ Count("pre_setup") > 0) => CreationCompleted

\* A suffixed database was created without migrations and a test is set up on it.
C14_Witness ==
    /\ phase = "call"
    /\ Count("pre_setup") = 1
    /\ ~django_db_use_migrations
    /\ Len(applied[ThisWorker]) = Len(ResolverOrder)
    /\ Len(setupCalls) = 1
    /\ setupCalls[1].databases # configured

\* C15: once the session's finalizers have run, settings.MIGRATION_MODULES and
\* migrate.Command are what they were before the session.
C15_MigrationsRestored ==
    SessionOver => migration = NativeMigrations


\* ---- vocabulary of the failing-setup properties ----

\* The helper invocation entered last got past its guards and raised before a
\* class was derived: import_string raised.
ImportRaised == outcome = "error" /\ Len(cases) < Len(calls)

SettingNames ==
    {"transaction_testcase_class", "DJANGO_TRANSACTION_TEST_CASE_CLASS",
     "testcase_class", "DJANGO_TEST_CASE_CLASS"}

\* The text contains the chunk.
Names(msg, chunk) == \E i \in 1..Len(msg) : msg[i] = chunk

\* C16: when the configured class path cannot be imported the test errors in
\* fixture setup before any class setup or pre-setup has run, and the message
\* of the error names the dotted path that failed and the option or
\* environment variable it came from.
C16_ImportErrorNamesSetting ==
    ImportRaised =>
        /\ phase = "teardown"
        /\ raised # None
        /\ Count("setUpClass") = 0
        /\ Count("pre_setup") = 0
        /\ \E c \in {"missing.TxnCase", "missing.Case"} : Names(raised[1], c)
        /\ \E n \in SettingNames : Names(raised[1], n)

\* The operations of helper invocation h, in the order they were performed.
OpsOfCall(h) ==
    LET IsCall(e) == e.call = h
    IN Ops(SelectSeq(log, IsCall))

SetUpClassRaised == raised = Some(<<"setUpClass raised">>)
PreSetupRaised == raised = Some(<<"_pre_setup raised">>)

\* C18: a fixture that raises ends the setup at once, the test function is not
\* called and no further fixture runs; when the finalizers are done every
\* helper invocation has released exactly what it acquired, in reverse order:
\* the invocation in which import_string or setUpClass raised has only
\* restored the gate, the one in which _pre_setup raised has run tearDownClass
\* and then restored the gate and never _post_teardown, and in every run a
\* release has been performed iff its acquisition completed.
C18_FailedSetupReleasesAcquired ==
    /\ outcome = "error" =>
          /\ phase = "teardown"
          /\ stack = <<>>
          /\ pending = {}
          /\ raised # None
    /\ Finished =>
          /\ \A h \in 1..Len(calls) :
                /\ \A op \in {"unblock", "setUpClass", "pre_setup"} :
                      (\E i \in 1..Len(log) : log[i] = Event(op, h)) <=>
                      (\E i \in 1..Len(log) : log[i] = ReleaseOf(Event(op, h)))
                /\ (h < Len(calls) \/ outcome # "error") =>
                      OpsOfCall(h) = AcquireOps \o ReleaseOps
          /\ (outcome = "error" /\ calls # <<>>) =>
                LET h == Len(calls)
                IN /\ (ImportRaised \/ SetUpClassRaised) =>
                         OpsOfCall(h) = <<"unblock", "restore">>
                   /\ PreSetupRaised =>
                         OpsOfCall(h) = <<"unblock", "setUpClass", "tearDownClass",
                                          "restore">>
                   /\ ImportRaised \/ SetUpClassRaised \/ PreSetupRaised

\* _pre_setup raised in the only helper invocation of the test.
C18_Witness ==
    /\ Finished
    /\ outcome = "error"
    /\ PreSetupRaised
    /\ Len(calls) = 1
    /\ Ops(log) = <<"unblock", "setUpClass", "tearDownClass", "restore">>

\* Option if set, else environment variable if set, else the default, all of
\* one kind.
FirstSet(option, variable, default) ==
    IF option # None THEN option[1] ELSE IF variable # None THEN variable[1] ELSE default

ExpectedBase(transactional) ==
    IF transactional
    THEN FirstSet(config.transaction_testcase_class,
                  config.DJANGO_TRANSACTION_TEST_CASE_CLASS,
                  "django.test.TransactionTestCase")
    ELSE FirstSet(config.testcase_class, config.DJANGO_TEST_CASE_CLASS,
                  "django.test.TestCase")

\* C20: the class a helper invocation imports is, for a transactional or
\* sequence-reset invocation, the transactional option, else the transactional
\* environment variable, else django.test.TransactionTestCase, and for a plain
\* invocation the plain option, else the plain environment variable, else
\* django.test.TestCase: a function of the settings of its own kind alone,
\* whether the import then succeeds or raises.
C20_ClassResolvedPerKind ==
    /\ \A h \in 1..Len(cases) : cases[h].base = ExpectedBase(calls[h].transactional)
    /\ ImportRaised =>
          Names(raised[1], ExpectedBase(calls[Len(calls)].transactional))

\* Both options and both variables are set, to four different classes; the
\* test is set up on the plain option's class.
C20_Witness ==
    /\ config = [transaction_testcase_class |-> Some("myapp.TxnOptCase"),
                 DJANGO_TRANSACTION_TEST_CASE_CLASS |-> Some("myapp.TxnEnvCase"),
                 testcase_class |-> Some("myapp.OptCase"),
                 DJANGO_TEST_CASE_CLASS |-> Some("myapp.EnvCase")]
    /\ phase = "call"
    /\ Len(cases) = 1
    /\ ~calls[1].transactional
    /\ cases[1].base = "myapp.OptCase"


\* ---- vocabulary of the query-count properties ----

Contains(msg, part) ==
    \E i \in 0..(Len(msg) - Len(part)) : SubSeq(msg, i + 1, i + Len(part)) = part
IsSuffix(part, msg) ==
    Len(part) <= Len(msg) /\ SubSeq(msg, Len(msg) - Len(part) + 1, Len(msg)) = part

VerboseHint == <<" (add -v option to show queries)">>
QueriesHeader == <<"\n\nQueries:\n========\n\n">>

\* The count as the message words it: "1 was", or the number and " were".
Performed(k) == IF k = 1 THEN <<"1 was">> ELSE Str(k) \o <<" were">>

\* C17: when the wrapped block returns after k queries,
\* django_assert_num_queries(n) passes iff k = n and
\* django_assert_max_num_queries(n) passes iff k <= n; the message of a failure
\* begins with the expected count n and goes on with the performed count k (for
\* the exact assertion with n = 2 and k = 3 it begins 'Expected to perform 2
\* queries but 3 were'), and it ends with the executed statements under their
\* heading iff verbose is above 0, and with the hint to add -v otherwise.
C17_QueryCountAssertion ==
    assertion.state = "returned" =>
        LET n == assertion.num
            k == Len(assertion.captured)
            passed == assertion.failure = None
            msg == assertion.failure[1]
            verbose == assertion.verbose > 0
        IN /\ assertion.fixture = "django_assert_num_queries" => (passed <=> k = n)
           /\ assertion.fixture = "django_assert_max_num_queries" => (passed <=> k <= n)
           /\ ~passed =>
                 /\ IsPrefix(<<"Expected to perform ">> \o Str(n) \o <<" queries ">>, msg)
                 /\ Contains(msg, <<"but ">> \o Performed(k) \o <<" done">>)
                 /\ verbose <=> IsSuffix(QueriesHeader
                                         \o Join(assertion.captured, <<"\n\n">>), msg)
                 /\ ~verbose <=> IsSuffix(VerboseHint, msg)
                 /\ verbose => ~Contains(msg, VerboseHint)
                 /\ ~verbose => ~Contains(msg, QueriesHeader)
           /\ (assertion.fixture = "django_assert_num_queries" /\ n = 2 /\ k = 3) =>
                 /\ ~passed
                 /\ IsPrefix(<<"Expected to perform ", "2", " queries ", "but ", "3",
                               " were">>, msg)

\* django_assert_num_queries(2) around a block of three queries, without -v.
C17_Witness ==
    /\ assertion.state = "returned"
    /\ assertion.fixture = "django_assert_num_queries"
    /\ assertion.num = 2
    /\ Len(assertion.captured) = 3
    /\ assertion.verbose = 0
    /\ assertion.failure # None
    /\ IsSuffix(VerboseHint, assertion.failure[1])

\* ---- vocabulary of the gate properties ----

GateOpen == blockerActive = "unblocked"

\* The finalizer that runs next is tearDownClass or _post_teardown.
TestCaseFinalizerNext ==
    /\ phase = "teardown"
    /\ nodeFinalizers # <<>>
    /\ LET fins == fixFinalizers[nodeFinalizers[Len(nodeFinalizers)]]
       IN /\ fins # <<>>
          /\ fins[Len(fins)].op \in {"tearDownClass", "post_teardown"}

\* Control is at a call that touches the database: setup_databases,
\* teardown_databases, setUpClass, _pre_setup, _post_teardown, tearDownClass, or
\* the function of a test these fixtures have set up for database access.
DatabasePrimitiveExecuting ==
    \/ dbSetup = "unblocked"
    \/ sessionPhase = "teardown_database"
    \/ InHelper("setUpClass")
    \/ InHelper("pre_setup")
    \/ TestCaseFinalizerNext
    \/ phase = "call" /\ ~Native /\ (Requested # {} \/ LiveServer)

\* C19: in every state in which a database-touching call is executing the gate
\* is unblocked, and setup_databases and teardown_databases were entered with
\* it unblocked; the gate is blocked, with nothing saved, in the state
\* setup_databases leaves by returning or raising, and whenever neither a test
\* nor a session fixture is running.
C19_GateOpenDuringDatabaseAccess ==
    /\ DatabasePrimitiveExecuting => GateOpen
    /\ \A i \in 1..Len(setupCalls) : setupCalls[i].gate = "unblocked"
    /\ \A i \in 1..Len(teardownCalls) : teardownCalls[i].gate = "unblocked"
    /\ (phase = "idle" /\ dbSetup # "unblocked" /\ sessionPhase # "teardown_database") =>
          /\ blockerActive = "blocked"
          /\ blockerHistory = <<>>

\* The function of a test using db is running on the databases created before.
C19_Witness ==
    /\ phase = "call"
    /\ ~Native
    /\ Requested = {"db"}
    /\ GateOpen
    /\ Len(setupCalls) = 1
    /\ setupCalls[1].gate = "unblocked"

====
